---- MODULE Spec2Model ----
(***************************************************************************)
(* Knight's dialer (knight_dialer.py): five ways of counting the numbers   *)
(* a chess knight can dial in num_hops hops from a starting key.           *)
(*                                                                         *)
(* The two recursive counters without local state (count_sequences over    *)
(* yield_sequences, count_sequences_rec) are operators.  The three with    *)
(* local state (the cache of count_sequences_mem, the two arrays of        *)
(* count_sequences_dyn, accum and power_of_2 of count_sequences_log) are   *)
(* step functions over a record of their locals; an action applies one     *)
(* step, and the function's value is the step function run to its return.  *)
(* A Python exception is an outcome: a result is a record                  *)
(* [ok, val, err] with ok = FALSE and err the exception's name.            *)
(***************************************************************************)
EXTENDS Integers, Sequences, FiniteSets, TLC

\* ---------------------------------------------------------------- bounds

\* num_hops is drawn from -NegHops .. MaxHops.
MaxHops == 6
NegHops == 2
\* starting positions are drawn from -StartSlack .. 9 + StartSlack.
StartSlack == 1
\* The interpreter's recursion limit (sys.getrecursionlimit(), 1000 by
\* default), scaled down: a call nested deeper raises RecursionError.
RecursionLimit == 12

\* ---------------------------------------------------------------- graph

\* The ten keys: range(10), range(0, 10).
NumNodes == 10

Nodes == 0 .. (NumNodes - 1)

NEIGHBORS_MAP ==
    [p \in Nodes |->
        CASE p = 1 -> <<6, 8>>
          [] p = 2 -> <<7, 9>>
          [] p = 3 -> <<4, 8>>
          [] p = 4 -> <<3, 9, 0>>
          [] p = 5 -> <<>>
          [] p = 6 -> <<1, 7, 0>>
          [] p = 7 -> <<2, 6>>
          [] p = 8 -> <<1, 3>>
          [] p = 9 -> <<2, 4>>
          [] p = 0 -> <<4, 6>>]

\* A Python tuple of ten numbers, indexed from 0.
Row(t) == [j \in 0 .. (Len(t) - 1) |-> t[j + 1]]

\* NEIGHBORS_MATRIX with a stray 1 on the diagonal of the isolated key's
\* row, so that key 5 hops to itself.
NEIGHBORS_MATRIX_StrayDiagonal ==
    [p \in Nodes |->
        CASE p = 0 -> Row(<<0, 0, 0, 0, 1, 0, 1, 0, 0, 0>>)
          [] p = 1 -> Row(<<0, 0, 0, 0, 0, 0, 1, 0, 1, 0>>)
          [] p = 2 -> Row(<<0, 0, 0, 0, 0, 0, 0, 1, 0, 1>>)
          [] p = 3 -> Row(<<0, 0, 0, 1, 0, 0, 0, 0, 1, 0>>)
          [] p = 4 -> Row(<<1, 0, 0, 1, 0, 0, 0, 0, 0, 1>>)
          [] p = 5 -> Row(<<0, 0, 0, 0, 0, 1, 0, 0, 0, 0>>)
          [] p = 6 -> Row(<<1, 1, 0, 0, 0, 0, 0, 1, 0, 0>>)
          [] p = 7 -> Row(<<0, 0, 1, 0, 0, 0, 1, 0, 0, 0>>)
          [] p = 8 -> Row(<<0, 1, 0, 1, 0, 0, 0, 0, 0, 0>>)
          [] p = 9 -> Row(<<0, 0, 1, 0, 1, 0, 0, 0, 0, 0>>)]

NEIGHBORS_MATRIX ==
    [p \in Nodes |->
        CASE p = 0 -> Row(<<0, 0, 0, 0, 1, 0, 1, 0, 0, 0>>)
          [] p = 1 -> Row(<<0, 0, 0, 0, 0, 0, 1, 0, 1, 0>>)
          [] p = 2 -> Row(<<0, 0, 0, 0, 0, 0, 0, 1, 0, 1>>)
          [] p = 3 -> Row(<<0, 0, 0, 1, 0, 0, 0, 0, 1, 0>>)
          [] p = 4 -> Row(<<1, 0, 0, 1, 0, 0, 0, 0, 0, 1>>)
          [] p = 5 -> Row(<<0, 0, 0, 0, 0, 0, 0, 0, 0, 0>>)
          [] p = 6 -> Row(<<1, 1, 0, 0, 0, 0, 0, 1, 0, 0>>)
          [] p = 7 -> Row(<<0, 0, 1, 0, 0, 0, 1, 0, 0, 0>>)
          [] p = 8 -> Row(<<0, 1, 0, 1, 0, 0, 0, 0, 0, 0>>)
          [] p = 9 -> Row(<<0, 0, 1, 0, 1, 0, 0, 0, 0, 0>>)]

\* ---------------------------------------------------------------- outcomes

\* A call that returned v.
Ret(v) == [ok |-> TRUE, val |-> v, err |-> "none"]

\* A call that raised exception e.
Raise(e) == [ok |-> FALSE, val |-> 0, err |-> e]

\* A call that has not been made yet.
Pending == [ok |-> FALSE, val |-> 0, err |-> "pending"]

\* NEIGHBORS_MAP[position]: a dict lookup, KeyError on a key it lacks.
neighbors(position) ==
    IF position \in DOMAIN NEIGHBORS_MAP
    THEN Ret(NEIGHBORS_MAP[position])
    ELSE [ok |-> FALSE, val |-> <<>>, err |-> "KeyError"]

\* list[index] on a list of length n held as a function on 0 .. n-1: a
\* negative index counts from the end, an index outside -n .. n-1 raises.
ListIndex(list, index) ==
    LET n == Cardinality(DOMAIN list)
    IN  IF index >= 0 /\ index < n THEN Ret(list[index])
        ELSE IF index < 0 /\ index >= 0 - n THEN Ret(list[index + n])
        ELSE Raise("IndexError")

\* ---------------------------------------------------------------- naive

RECURSIVE yield_sequences(_, _, _, _)
RECURSIVE yield_from(_, _, _, _, _, _)

\* The generator, as the list of the sequences it yields (ok) or the
\* exception that ends it.  depth is the nesting of the call.
yield_sequences(starting_position, num_hops, sequence, depth) ==
    IF depth > RecursionLimit THEN [ok |-> FALSE, val |-> <<>>, err |-> "RecursionError"]
    ELSE IF num_hops = 0 THEN Ret(<<sequence>>)
    ELSE LET nb == neighbors(starting_position)
         IN  IF ~nb.ok THEN nb
             ELSE yield_from(nb.val, 1, num_hops, sequence, depth, <<>>)

\* The for loop of yield_sequences from the i-th neighbor on, after the
\* sequences in yielded.
yield_from(nbs, i, num_hops, sequence, depth, yielded) ==
    IF i > Len(nbs) THEN Ret(yielded)
    ELSE LET sub == yield_sequences(nbs[i], num_hops - 1,
                                    sequence \o <<nbs[i]>>, depth + 1)
         IN  IF ~sub.ok THEN sub
             ELSE yield_from(nbs, i + 1, num_hops, sequence, depth,
                             yielded \o sub.val)

count_sequences(starting_position, num_hops) ==
    LET gen == yield_sequences(starting_position, num_hops,
                               <<starting_position>>, 1)
    IN  IF gen.ok THEN Ret(Len(gen.val)) ELSE Raise(gen.err)

\* ---------------------------------------------------------------- recursive

RECURSIVE rec_call(_, _, _)
RECURSIVE rec_loop(_, _, _, _, _)

\* count_sequences_rec called at nesting depth.
rec_call(start_position, num_hops, depth) ==
    IF depth > RecursionLimit THEN Raise("RecursionError")
    ELSE IF num_hops = 0 THEN Ret(1)
    ELSE LET nb == neighbors(start_position)
         IN  IF ~nb.ok THEN Raise(nb.err)
             ELSE rec_loop(nb.val, 1, num_hops, depth, 0)

\* The for loop of count_sequences_rec from the i-th neighbor on.
rec_loop(nbs, i, num_hops, depth, num_sequences) ==
    IF i > Len(nbs) THEN Ret(num_sequences)
    ELSE LET sub == rec_call(nbs[i], num_hops - 1, depth + 1)
         IN  IF ~sub.ok THEN sub
             ELSE rec_loop(nbs, i + 1, num_hops, depth, num_sequences + sub.val)

count_sequences_rec(start_position, num_hops) ==
    rec_call(start_position, num_hops, 1)

\* ---------------------------------------------------------------- memoized

\* The locals of one call of count_sequences_mem before it starts.  stack
\* holds the active calls of helper, innermost last, each with its
\* arguments, the index i of the neighbor its for loop is at and its
\* num_sequences.  entered, writes and hits record what happened: the keys
\* whose else branch was entered, the keys stored in the cache, in order,
\* and the number of lookups the cache answered.
MemIdle ==
    [status |-> "idle", stack |-> <<>>, cache |-> <<>>, res |-> Pending,
     entered |-> <<>>, writes |-> <<>>, hits |-> 0]

\* CacheKey without the number of hops: a cache keyed by position alone.
CacheKey_PositionOnly(position, num_hops) == <<position, 0>>

\* The cache's key for a call of helper.
CacheKey(position, num_hops) == <<position, num_hops>>

\* CacheHit of a helper that never looks its key up.
CacheHit_NoLookup(cache, key) == FALSE

\* (position, num_hops) in cache
CacheHit(cache, key) == key \in DOMAIN cache

\* cache[key] = value
CacheStore(cache, key, value) ==
    [k \in (DOMAIN cache) \cup {key} |-> IF k = key THEN value ELSE cache[k]]

\* An exception leaves every active call of helper.
MemRaise(m, e) ==
    [m EXCEPT !.status = "done", !.stack = <<>>, !.res = Raise(e)]

\* helper returns v: to count_sequences_mem when it was the outermost call,
\* else into its caller's num_sequences += ..., which moves to its next
\* neighbor.
MemDeliver(m, v) ==
    IF m.stack = <<>>
    THEN [m EXCEPT !.status = "done", !.res = Ret(v)]
    ELSE LET n == Len(m.stack)
         IN  [m EXCEPT !.stack[n].num_sequences = @ + v, !.stack[n].i = @ + 1]

\* A call helper(position, num_hops) up to its for loop.
helper_call(m, position, num_hops) ==
    LET key == CacheKey(position, num_hops)
    IN  IF Len(m.stack) + 1 > RecursionLimit THEN MemRaise(m, "RecursionError")
        ELSE IF CacheHit(m.cache, key)
        THEN MemDeliver([m EXCEPT !.hits = @ + 1], m.cache[key])
        ELSE IF num_hops = 0 THEN MemDeliver(m, 1)
        ELSE LET nb == neighbors(position)
             IN  IF ~nb.ok THEN MemRaise(m, nb.err)
                 ELSE [m EXCEPT
                         !.stack = Append(@, [position |-> position,
                                              num_hops |-> num_hops,
                                              i |-> 1, num_sequences |-> 0]),
                         !.entered = Append(@, key)]

\* The end of helper's for loop: store the sum and return it.
helper_return(m) ==
    LET n == Len(m.stack)
        top == m.stack[n]
        key == CacheKey(top.position, top.num_hops)
    IN  MemDeliver([m EXCEPT !.cache = CacheStore(@, key, top.num_sequences),
                             !.writes = Append(@, key),
                             !.stack = SubSeq(@, 1, n - 1)],
                   top.num_sequences)

\* cache = {} and the outermost call of helper.
MemInit(start_position, num_hops) ==
    helper_call([MemIdle EXCEPT !.status = "run"], start_position, num_hops)

\* One step of the innermost active call of helper: its for loop calls
\* helper for its next neighbor, or ends.
MemStep(m) ==
    LET top == m.stack[Len(m.stack)]
        nbs == neighbors(top.position).val
    IN  IF top.i <= Len(nbs)
        THEN helper_call(m, nbs[top.i], top.num_hops - 1)
        ELSE helper_return(m)

RECURSIVE MemRun(_)

\* The steps of count_sequences_mem up to its return.
MemRun(m) == IF m.status = "done" THEN m ELSE MemRun(MemStep(m))

count_sequences_mem(start_position, num_hops) ==
    MemRun(MemInit(start_position, num_hops)).res

\* ---------------------------------------------------------------- dynamic

\* [v] * 10
Filled(v) == [p \in Nodes |-> v]

\* The locals of count_sequences_dyn before it starts; iters counts the
\* iterations of its while loop.
DynIdle ==
    [status |-> "idle", prior_case |-> Filled(0), current_case |-> Filled(0),
     current_num_hops |-> 0, iters |-> 0, res |-> Pending]

DynInit ==
    [DynIdle EXCEPT !.status = "run", !.prior_case = Filled(1),
                    !.current_case = Filled(0), !.current_num_hops = 1]

RECURSIVE dyn_neighbors(_, _, _, _, _)
RECURSIVE dyn_positions(_, _, _)

\* for neighbor in neighbors(position): current_case[position] += prior_case[neighbor]
dyn_neighbors(current_case, prior_case, position, nbs, i) ==
    IF i > Len(nbs) THEN current_case
    ELSE dyn_neighbors([current_case EXCEPT ![position] = @ + prior_case[nbs[i]]],
                       prior_case, position, nbs, i + 1)

\* for position in range(0, 10), from position on.
dyn_positions(current_case, prior_case, position) ==
    IF position >= NumNodes THEN current_case
    ELSE dyn_positions(dyn_neighbors(current_case, prior_case, position,
                                     neighbors(position).val, 1),
                       prior_case, position + 1)

\* The while loop's test, and then one iteration of it or the return.
DynStep(d, start_position, num_hops) ==
    IF d.current_num_hops <= num_hops
    THEN LET cur == dyn_positions(Filled(0), d.prior_case, 0)
         IN  [d EXCEPT !.current_case = cur, !.prior_case = cur,
                       !.current_num_hops = @ + 1, !.iters = @ + 1]
    ELSE [d EXCEPT !.status = "done",
                   !.res = ListIndex(d.current_case, start_position)]

RECURSIVE DynRun(_, _, _)

DynRun(d, start_position, num_hops) ==
    IF d.status = "done" THEN d
    ELSE DynRun(DynStep(d, start_position, num_hops), start_position, num_hops)

count_sequences_dyn(start_position, num_hops) ==
    DynRun(DynInit, start_position, num_hops).res

\* ---------------------------------------------------------------- logarithmic

RECURSIVE dot(_, _, _, _, _, _)

\* for i in range(B_rows): result[row][col] += A[row][i] * B[i][col], from i on.
dot(A, B, row, col, i, B_rows) ==
    IF i >= B_rows THEN 0
    ELSE A[row][i] * B[i][col] + dot(A, B, row, col, i + 1, B_rows)

matrix_multiply(A, B) ==
    LET A_rows == Cardinality(DOMAIN A)
        B_rows == Cardinality(DOMAIN B)
        B_cols == Cardinality(DOMAIN B[0])
    IN  [row \in 0 .. (A_rows - 1) |->
            [col \in 0 .. (B_cols - 1) |-> dot(A, B, row, col, 0, B_rows)]]

\* [[1 if i == j else 0 for i in range(10)] for j in range(10)]
Identity == [j \in Nodes |-> [i \in Nodes |-> IF i = j THEN 1 ELSE 0]]

\* [[1]] * 10
Ones == [j \in Nodes |-> [i \in {0} |-> 1]]

RECURSIVE Digits(_)

\* The binary digits of n >= 0, the lowest first.
Digits(n) ==
    IF n < 2 THEN <<IF n = 1 THEN "1" ELSE "0">>
    ELSE <<IF n % 2 = 1 THEN "1" ELSE "0">> \o Digits(n \div 2)

\* reversed(bin(num_hops)[2:]): bin gives "0b101" and, below zero,
\* "-0b101", of which [2:] leaves "b101".
ReversedBin(num_hops) ==
    IF num_hops >= 0 THEN Digits(num_hops)
    ELSE Digits(0 - num_hops) \o <<"b">>

\* power_of_2 before its first assignment.
Unbound == <<>>

\* The locals of count_sequences_log before it starts; bit_num counts the
\* characters the for loop has processed, and at is the half of the loop
\* body that comes next: the assignment of power_of_2 or the test of bit.
LogIdle ==
    [status |-> "idle", accum |-> Identity, power_of_2 |-> Unbound,
     bits |-> <<>>, bit_num |-> 0, at |-> "power", res |-> Pending]

LogInit(num_hops) ==
    [LogIdle EXCEPT !.status = "run", !.bits = ReversedBin(num_hops)]

\* NextPower multiplying by the base matrix where it should square.
NextPower_TimesBase(power_of_2, bit_num) ==
    IF bit_num = 0 THEN NEIGHBORS_MATRIX
    ELSE matrix_multiply(power_of_2, NEIGHBORS_MATRIX)

\* power_of_2 for the character at position bit_num.
NextPower(power_of_2, bit_num) ==
    IF bit_num = 0 THEN NEIGHBORS_MATRIX
    ELSE matrix_multiply(power_of_2, power_of_2)

\* accum after the character bit, given that position's power_of_2.
NextAccum(accum, power_of_2, bit) ==
    IF bit = "1" THEN matrix_multiply(accum, power_of_2) ELSE accum

\* One half of an iteration of the for loop, or the return after the loop.
LogStep(l, start_position) ==
    IF l.bit_num < Len(l.bits)
    THEN IF l.at = "power"
         THEN [l EXCEPT !.power_of_2 = NextPower(l.power_of_2, l.bit_num),
                        !.at = "accum"]
         ELSE [l EXCEPT !.accum = NextAccum(l.accum, l.power_of_2,
                                            l.bits[l.bit_num + 1]),
                        !.bit_num = @ + 1,
                        !.at = "power"]
    ELSE LET row == ListIndex(matrix_multiply(l.accum, Ones), start_position)
         IN  [l EXCEPT !.status = "done",
                       !.res = IF row.ok THEN Ret(row.val[0]) ELSE row]

RECURSIVE LogRun(_, _)

LogRun(l, start_position) ==
    IF l.status = "done" THEN l ELSE LogRun(LogStep(l, start_position), start_position)

count_sequences_log(start_position, num_hops) ==
    LogRun(LogInit(num_hops), start_position).res

\* ---------------------------------------------------------------- the run

(***************************************************************************)
(* main calls the five functions in turn on one (start, hops); here the    *)
(* pair is any of the bounded inputs and an exception is recorded as the   *)
(* call's outcome.                                                         *)
(***************************************************************************)
VARIABLES start, hops, pc, res, mem, dyn, log

vars == <<start, hops, pc, res, mem, dyn, log>>

Starts == (0 - StartSlack) .. (NumNodes - 1 + StartSlack)

HopCounts == (0 - NegHops) .. MaxHops

Init ==
    /\ start \in Starts
    /\ hops \in HopCounts
    /\ pc = "naive"
    /\ res = [naive |-> Pending, rec |-> Pending, mem |-> Pending,
              dyn |-> Pending, log |-> Pending]
    /\ mem = MemIdle
    /\ dyn = DynIdle
    /\ log = LogIdle

RunNaive ==
    /\ pc = "naive"
    /\ res' = [res EXCEPT !.naive = count_sequences(start, hops)]
    /\ pc' = "rec"
    /\ UNCHANGED <<start, hops, mem, dyn, log>>

RunRec ==
    /\ pc = "rec"
    /\ res' = [res EXCEPT !.rec = count_sequences_rec(start, hops)]
    /\ pc' = "mem"
    /\ UNCHANGED <<start, hops, mem, dyn, log>>

MemCall ==
    /\ pc = "mem" /\ mem.status = "idle"
    /\ mem' = MemInit(start, hops)
    /\ UNCHANGED <<start, hops, pc, res, dyn, log>>

MemLoop ==
    /\ pc = "mem" /\ mem.status = "run"
    /\ mem' = MemStep(mem)
    /\ UNCHANGED <<start, hops, pc, res, dyn, log>>

MemReturn ==
    /\ pc = "mem" /\ mem.status = "done"
    /\ res' = [res EXCEPT !.mem = mem.res]
    /\ pc' = "dyn"
    /\ UNCHANGED <<start, hops, mem, dyn, log>>

DynCall ==
    /\ pc = "dyn" /\ dyn.status = "idle"
    /\ dyn' = DynInit
    /\ UNCHANGED <<start, hops, pc, res, mem, log>>

DynLoop ==
    /\ pc = "dyn" /\ dyn.status = "run"
    /\ dyn' = DynStep(dyn, start, hops)
    /\ UNCHANGED <<start, hops, pc, res, mem, log>>

DynReturn ==
    /\ pc = "dyn" /\ dyn.status = "done"
    /\ res' = [res EXCEPT !.dyn = dyn.res]
    /\ pc' = "log"
    /\ UNCHANGED <<start, hops, mem, dyn, log>>

LogCall ==
    /\ pc = "log" /\ log.status = "idle"
    /\ log' = LogInit(hops)
    /\ UNCHANGED <<start, hops, pc, res, mem, dyn>>

LogLoop ==
    /\ pc = "log" /\ log.status = "run"
    /\ log' = LogStep(log, start)
    /\ UNCHANGED <<start, hops, pc, res, mem, dyn>>

LogReturn ==
    /\ pc = "log" /\ log.status = "done"
    /\ res' = [res EXCEPT !.log = log.res]
    /\ pc' = "done"
    /\ UNCHANGED <<start, hops, mem, dyn, log>>

Next ==
    \/ RunNaive
    \/ RunRec
    \/ MemCall
    \/ MemLoop
    \/ MemReturn
    \/ DynCall
    \/ DynLoop
    \/ DynReturn
    \/ LogCall
    \/ LogLoop
    \/ LogReturn

Spec == Init /\ [][Next]_vars

\* count_sequences_log runs on once it is called: no iteration of its loop
\* waits on anything.
FairSpec == Spec /\ WF_vars(LogLoop)

\* ---------------------------------------------------------------- properties

Algorithms == {"naive", "rec", "mem", "dyn", "log"}

\* The call of algorithm f has ended, with a value or an exception.
Finished(f) == res[f].err # "pending"

\* Algorithm f's function applied to (p, h).
Count(f, p, h) ==
    CASE f = "naive" -> count_sequences(p, h)
      [] f = "rec" -> count_sequences_rec(p, h)
      [] f = "mem" -> count_sequences_mem(p, h)
      [] f = "dyn" -> count_sequences_dyn(p, h)
      [] f = "log" -> count_sequences_log(p, h)

RECURSIVE NeighborSum(_, _, _, _)

\* The sum of f(n, h) over the neighbors n = nbs[i], nbs[i+1], ...
NeighborSum(f, nbs, i, h) ==
    IF i > Len(nbs) THEN 0
    ELSE Count(f, nbs[i], h).val + NeighborSum(f, nbs, i + 1, h)

\* The elements of a sequence are pairwise distinct.
NoDup(s) == \A i, j \in 1 .. Len(s) : s[i] = s[j] => i = j

RECURSIVE RepeatedProduct(_)

\* The identity multiplied by NEIGHBORS_MATRIX k times with matrix_multiply.
RepeatedProduct(k) ==
    IF k = 0 THEN Identity
    ELSE matrix_multiply(RepeatedProduct(k - 1), NEIGHBORS_MATRIX)

\* The powers the bit loop can reach for hops <= MaxHops, computed once.
Powers == [k \in 0 .. (2 * MaxHops) |-> RepeatedProduct(k)]

\* M^k for M = NEIGHBORS_MATRIX.
MatPow(k) == Powers[k]

RECURSIVE Pow2(_)

Pow2(k) == IF k = 0 THEN 1 ELSE 2 * Pow2(k - 1)

\* C1: for a start in 0..9 and hops in 0..MaxHops, the five functions all
\* return the same integer.
C1_AllFiveAgree ==
    (pc = "done" /\ start \in Nodes /\ hops \in 0 .. MaxHops)
        => \A f \in Algorithms : res[f].ok /\ res[f] = res.naive

\* C2: with hops = 0 every one of the five functions returns 1 for every
\* node, and count_sequences_dyn does so without an iteration of its while
\* loop.
C2_ZeroHopsReturnOne ==
    (start \in Nodes /\ hops = 0)
        => /\ \A f \in Algorithms : Finished(f) => res[f] = Ret(1)
           /\ dyn.iters = 0

\* C3: NEIGHBORS_MATRIX[i][j] is 1 exactly when j is listed in
\* NEIGHBORS_MAP[i], and 0 otherwise; i is the node a run starts from, which
\* is every node.
C3_MatrixMatchesList ==
    start \in Nodes
        => \A j \in Nodes :
              NEIGHBORS_MATRIX[start][j] =
                  IF \E k \in 1 .. Len(NEIGHBORS_MAP[start]) :
                        NEIGHBORS_MAP[start][k] = j
                  THEN 1 ELSE 0

\* C4: for each of the five functions f, a node p and h >= 1, f(p, h) is the
\* sum of f(n, h - 1) over the neighbors n of p in NEIGHBORS_MAP.
C4_Recurrence ==
    (pc = "done" /\ start \in Nodes /\ hops >= 1)
        => \A f \in Algorithms :
              res[f] = Ret(NeighborSum(f, NEIGHBORS_MAP[start], 1, hops - 1))

\* C5: for a start in 0..9 and hops >= 0, count_sequences_rec and
\* count_sequences_mem each return the number of sequences that
\* yield_sequences(start, hops) produces, the result of count_sequences.
C5_RecMemMatchNaive ==
    (start \in Nodes /\ hops >= 0)
        => /\ Finished("rec") => (res.naive.ok /\ res.rec = res.naive)
           /\ Finished("mem") => (res.naive.ok /\ res.mem = res.naive)

\* C5's case: the memoized count of a run that answered lookups from its
\* cache equals the number of enumerated sequences.
C5_Witness ==
    /\ pc = "done" /\ start = 6 /\ hops = 4
    /\ mem.hits > 0
    /\ res.naive.ok /\ res.naive.val > 1
    /\ res.rec = res.naive /\ res.mem = res.naive

\* What C6 says of every state of count_sequences_log with hops >= 0: after
\* bit_num bits accum is M^(hops mod 2^bit_num); power_of_2 is M^(2^k) once
\* assigned for position k; after the loop accum is M^hops, the identity for
\* hops = 0.
C6_Inv ==
    (hops >= 0 /\ log.status \in {"run", "done"})
        => /\ log.bit_num <= Len(log.bits)
           /\ log.accum = MatPow(hops % Pow2(log.bit_num))
           /\ (log.at = "power" /\ log.bit_num >= 1)
                => log.power_of_2 = MatPow(Pow2(log.bit_num - 1))
           /\ log.at = "accum" => log.power_of_2 = MatPow(Pow2(log.bit_num))
           /\ log.status = "done"
                => (log.bit_num = Len(log.bits) /\ log.accum = MatPow(hops))
           /\ hops = 0 => log.accum = Identity

\* What C6 says of a step of the bit loop: a 1-bit at position k multiplies
\* accum by M^(2^k), any other bit leaves accum as it is.
C6_BitStep ==
    (hops >= 0 /\ log.status = "run" /\ log.at = "accum")
        => log'.accum =
             IF log.bits[log.bit_num + 1] = "1"
             THEN matrix_multiply(log.accum, MatPow(Pow2(log.bit_num)))
             ELSE log.accum

\* C6: in count_sequences_log with hops >= 0 the bit loop ends and leaves
\* accum = M^hops (M = NEIGHBORS_MATRIX, the power by repeated
\* matrix_multiply from the identity; the identity itself for hops = 0), each
\* 1-bit at position k having multiplied accum by M^(2^k).
C6_AccumIsPower ==
    /\ []C6_Inv
    /\ [][C6_BitStep]_vars
    /\ (hops >= 0 /\ log.status = "run") ~> (log.status = "done")

\* C6's case: the loop has ended for hops = 5 (bits 1, 0, 1) with
\* accum = M^5.
C6_Witness ==
    /\ hops = 5 /\ log.status = "done"
    /\ log.bit_num = 3
    /\ log.accum = MatPow(5)
    /\ log.accum # Identity

\* C7: with hops < 0 every one of the five functions ends in an error, and
\* none has started computing.
C7_NegativeHopsRejected ==
    (start \in Nodes /\ hops < 0)
        => /\ \A f \in Algorithms : Finished(f) => ~res[f].ok
           /\ mem.entered = <<>> /\ dyn.iters = 0 /\ log.bit_num = 0

\* C8: with a start outside 0..9 and hops >= 0 every one of the five
\* functions ends in an error.
C8_BadStartRejected ==
    (start \notin Nodes /\ hops >= 0)
        => \A f \in Algorithms : Finished(f) => ~res[f].ok

\* C9: for the isolated node 5 and hops >= 1 every one of the five
\* functions returns 0.
C9_IsolatedNodeZero ==
    (start = 5 /\ hops >= 1)
        => \A f \in Algorithms : Finished(f) => res[f] = Ret(0)

\* C9's case: all five calls have returned for start = 5 and three hops.
C9_Witness ==
    /\ pc = "done" /\ start = 5 /\ hops = 3
    /\ \A f \in Algorithms : res[f] = Ret(0)

\* What C10 says of every state of count_sequences_mem with hops >= 0: no
\* key was stored twice, no key's else branch was entered twice, the cache
\* holds the stored keys and has at most 10 * (hops + 1) entries.
C10_Inv ==
    hops >= 0
        => /\ NoDup(mem.writes)
           /\ NoDup(mem.entered)
           /\ \A i \in 1 .. Len(mem.entered) : mem.entered[i][2] >= 1
           /\ DOMAIN mem.cache = {mem.writes[i] : i \in 1 .. Len(mem.writes)}
           /\ Cardinality(DOMAIN mem.cache) <= NumNodes * (hops + 1)

\* What C10 says of every step: an entry of the cache stays, with its value.
C10_Stable ==
    hops >= 0
        => \A k \in DOMAIN mem.cache :
              k \in DOMAIN mem'.cache /\ mem'.cache[k] = mem.cache[k]

\* C10: during a call of count_sequences_mem with hops >= 0 the cache is
\* append-only and write-once: a key is inserted at most once, its value is
\* never changed or removed, the loop for a key runs at most once, and the
\* cache never holds more than 10 * (hops + 1) entries.
C10_CacheWriteOnce == []C10_Inv /\ [][C10_Stable]_vars

\* C10's case: a call that has stored several keys and answered lookups
\* from them has returned.
C10_Witness ==
    /\ hops = 4 /\ start = 6 /\ mem.status = "done"
    /\ mem.hits >= 2
    /\ Len(mem.writes) >= 10
    /\ Len(mem.entered) = Len(mem.writes)

====
